---------------------------- MODULE Spec2Model ----------------------------
(***************************************************************************)
(* A model of backend/app/core/dna_encoder.py: the DNAEncoder codec that   *)
(* maps byte payloads to lists of nucleotide strings and back.             *)
(*                                                                         *)
(* Bytes are sequences over 0..255, nucleotide strings are sequences over  *)
(* {"A","T","C","G"}.  The process-wide numpy generator is the variable    *)
(* rng, a tape of draws that the rewriter consumes; the tape is chosen     *)
(* freely in the initial state, which makes every outcome of the random    *)
(* choices (up to the tape's period) a behaviour of the model.             *)
(***************************************************************************)
EXTENDS Integers, Sequences, FiniteSets, TLC

VARIABLES
    base_length,             \* self.base_length
    error_correction_level,  \* self.error_correction_level
    ecc_symbols,             \* self.ecc_symbols
    rs_codec,                \* self.rs_codec: the codec's generator polynomial
    rng,                     \* state of the global np.random generator
    pc,                      \* position of the running call
    payload,                 \* encode's argument data (and the packer's input)
    password,                \* encode's argument password ("" is None / empty)
    data,                    \* encode's local data, after the envelope
    i,                       \* encode's loop index
    chunk,                   \* encode's local chunk
    packed,                  \* dna_sequence after lines 129-133
    balanced,                \* dna_sequence after line 136
    limited,                 \* dna_sequence after line 137
    sequences,               \* encode's list of sequences
    inbox,                   \* decode's argument sequences
    dec_password,            \* decode's argument password
    result,                  \* what decode returned or raised
    unpacked                 \* what _dna_to_binary returned (packer round trip)

vars == <<base_length, error_correction_level, ecc_symbols, rs_codec, rng, pc, payload,
          password, data, i, chunk, packed, balanced, limited, sequences,
          inbox, dec_password, result, unpacked>>

-----------------------------------------------------------------------------
(* Bounds of the model. *)

\* Longest payload drawn over SampleBytes.
MaxPayloadLen == 2
\* Period of the tape of random draws.
TapeLen == 1
\* Most fragments an encode call of the model may produce.
MaxFragments == 5
\* Longest byte string handed to the packer on its own.
MaxPackLen == 2
\* Longest nucleotide string handed to the rewriter on its own.
MaxDnaLen == 5

-----------------------------------------------------------------------------
(* Class constants. *)

NUCLEOTIDES == <<"A", "T", "C", "G">>
MAX_HOMOPOLYMER_LENGTH == 3
\* TARGET_GC_CONTENT = 0.5 and GC_CONTENT_TOLERANCE = 0.1, as the fractions
\* TargetNum / TargetDen and ToleranceNum / ToleranceDen.
TargetNum == 1
TargetDen == 2
ToleranceNum == 1
ToleranceDen == 10
\* Symbols reserved for the fragment ID.
HeaderLen == 8

-----------------------------------------------------------------------------
(* Values and small helpers. *)

Bytes == 0..255

Ok(v) == [ok |-> TRUE, val |-> v, err |-> ""]
Raise(e) == [ok |-> FALSE, val |-> <<>>, err |-> e]

Abs(x) == IF x < 0 THEN -x ELSE x

RECURSIVE Pow2(_)
Pow2(n) == IF n = 0 THEN 1 ELSE 2 * Pow2(n - 1)

\* s[a:b] of Python, with 0-based bounds clipped to the sequence.
Slice(s, a, b) ==
    LET lo == IF a > Len(s) THEN Len(s) ELSE a
        hi == IF b > Len(s) THEN Len(s) ELSE b
    IN  IF hi <= lo THEN <<>> ELSE SubSeq(s, lo + 1, hi)

\* Bitwise exclusive or of two bytes.
RECURSIVE Xor(_, _)
Xor(a, b) ==
    IF a = 0 THEN b
    ELSE IF b = 0 THEN a
    ELSE ((a + b) % 2) + 2 * Xor(a \div 2, b \div 2)

\* The sequence f as an explicit tuple (the same value; it keeps TLC from
\* re-evaluating a function expression at every application).
AsTuple(f) == SubSeq(f, 1, Len(f))

\* Strings of length 0..n over the set S.
SeqsUpTo(S, n) == UNION {[1..k -> S] : k \in 0..n}

-----------------------------------------------------------------------------
(* Symbol packer. *)

\* _binary_to_dna with the shift taken as i instead of 6 - i: the least
\* significant bit pair comes first.
binary_to_dna_lsb_first(binary_data) ==
    AsTuple([j \in 1..(4 * Len(binary_data)) |->
        LET byte == binary_data[((j - 1) \div 4) + 1]
            sh   == 2 * ((j - 1) % 4)
        IN  NUCLEOTIDES[((byte \div Pow2(sh)) % 4) + 1]])

\* _binary_to_dna: each byte becomes 4 nucleotides, bits (byte >> (6-i)) & 3
\* for i = 0, 2, 4, 6.
binary_to_dna(binary_data) ==
    AsTuple([j \in 1..(4 * Len(binary_data)) |->
        LET byte == binary_data[((j - 1) \div 4) + 1]
            sh   == 6 - 2 * ((j - 1) % 4)
        IN  NUCLEOTIDES[((byte \div Pow2(sh)) % 4) + 1]])

\* NUCLEOTIDES.index(nucleotide), defined for the four nucleotides.
NucleotideIndex(nucleotide) ==
    CHOOSE k \in 0..3 : NUCLEOTIDES[k + 1] = nucleotide

IsNucleotide(x) == \E k \in 1..4 : NUCLEOTIDES[k] = x

\* _dna_to_binary: shifts 2 bits per nucleotide into current_byte and emits
\* it every 4 nucleotides; a trailing partial byte is dropped; a symbol that
\* is no nucleotide makes list.index raise ValueError.
dna_to_binary(dna_sequence) ==
    IF \E j \in 1..Len(dna_sequence) : ~IsNucleotide(dna_sequence[j])
    THEN Raise("ValueError")
    ELSE Ok(AsTuple([k \in 1..(Len(dna_sequence) \div 4) |->
              64 * NucleotideIndex(dna_sequence[4 * k - 3])
            + 16 * NucleotideIndex(dna_sequence[4 * k - 2])
            +  4 * NucleotideIndex(dna_sequence[4 * k - 1])
            +      NucleotideIndex(dna_sequence[4 * k])]))


-----------------------------------------------------------------------------
(* The random source.  np.random.random() and np.random.choice() each take *)
(* one draw from the global generator; a draw is a number in Draws, read   *)
(* as a coin by its parity and as a choice among three by its residue.     *)

Draws == 0..2
Tapes == [1..TapeLen -> Draws]

NextDraw(r) == Head(r)
Advance(r) == Tail(r) \o <<Head(r)>>

\* np.random.random() < 0.5
RandomBelowHalf(d) == d % 2 = 0
\* np.random.choice(alternatives)
RandomChoice(alternatives, d) == alternatives[(d % Len(alternatives)) + 1]

-----------------------------------------------------------------------------
(* Sequence constraint rewriter. *)

\* sequence.count('G') + sequence.count('C')
GcCount(sequence) ==
    Cardinality({j \in 1..Len(sequence) : sequence[j] \in {"G", "C"}})

\* abs(gc_content - TARGET_GC_CONTENT) <= GC_CONTENT_TOLERANCE, with
\* gc_content = GcCount / len, cleared of its denominators.
WithinTolerance(sequence) ==
    Abs(GcCount(sequence) * TargetDen - TargetNum * Len(sequence)) * ToleranceDen
        <= ToleranceNum * TargetDen * Len(sequence)

\* gc_content < TARGET_GC_CONTENT
GcLow(sequence) ==
    GcCount(sequence) * TargetDen < TargetNum * Len(sequence)

\* The two for loops of _optimize_gc_content from index j on (1-based):
\* every A/T (low) or G/C (high) met is replaced by a random member of the
\* other pair, and the scan breaks as soon as the tolerance is met.
RECURSIVE GcScan(_, _, _, _)
GcScan(sequence_list, j, r, low) ==
    IF j > Len(sequence_list)
    THEN [seq |-> sequence_list, rng |-> r]
    ELSE IF sequence_list[j] \in (IF low THEN {"A", "T"} ELSE {"G", "C"})
    THEN LET d    == NextDraw(r)
             sym  == IF low
                     THEN (IF RandomBelowHalf(d) THEN "G" ELSE "C")
                     ELSE (IF RandomBelowHalf(d) THEN "A" ELSE "T")
             next == [sequence_list EXCEPT ![j] = sym]
         IN  IF WithinTolerance(next)
             THEN [seq |-> next, rng |-> Advance(r)]
             ELSE GcScan(next, j + 1, Advance(r), low)
    ELSE GcScan(sequence_list, j + 1, r, low)

\* _optimize_gc_content on a non-empty sequence (an empty one divides by
\* zero at line 51; see Balance).
optimize_gc_content(sequence, r) ==
    IF WithinTolerance(sequence)
    THEN [seq |-> sequence, rng |-> r]
    ELSE GcScan(sequence, 1, r, GcLow(sequence))

\* The while loop of _avoid_homopolymers from index k on (0-based, as in the
\* code): a window of MAX_HOMOPOLYMER_LENGTH + 1 equal symbols gets its last
\* symbol replaced by a random one of the three others.
RECURSIVE HomopolymerScan(_, _, _)
HomopolymerScan(res, k, r) ==
    IF ~(k < Len(res) - MAX_HOMOPOLYMER_LENGTH)
    THEN [seq |-> res, rng |-> r]
    ELSE LET window == SubSeq(res, k + 1, k + MAX_HOMOPOLYMER_LENGTH + 1)
         IN  IF Cardinality({window[w] : w \in 1..Len(window)}) = 1
             THEN LET NotFirst(n) == n # window[1]
                      alternatives == SelectSeq(NUCLEOTIDES, NotFirst)
                      sym == RandomChoice(alternatives, NextDraw(r))
                  IN  HomopolymerScan(
                          [res EXCEPT ![k + MAX_HOMOPOLYMER_LENGTH + 1] = sym],
                          k + 1, Advance(r))
             ELSE HomopolymerScan(res, k + 1, r)

\* _avoid_homopolymers with the loop bound one too small: the last window
\* is never looked at.
avoid_homopolymers_short(sequence, r) ==
    IF sequence = <<>> THEN [seq |-> sequence, rng |-> r]
    ELSE LET scanned == HomopolymerScan(SubSeq(sequence, 1, Len(sequence) - 1),
                                        0, r)
         IN  [seq |-> Append(scanned.seq, sequence[Len(sequence)]),
              rng |-> scanned.rng]

avoid_homopolymers(sequence, r) == HomopolymerScan(sequence, 0, r)

-----------------------------------------------------------------------------
(* Error-correction framer: reedsolo's RSCodec(nsym) with its defaults, the *)
(* field GF(2^8) with primitive polynomial 0x11d, generator 2, fcr 0.       *)

\* gf_exp of init_tables(): entry k + 1 holds 2^k in the field, k = 0..254.
GfExp == <<
      1,   2,   4,   8,  16,  32,  64, 128,  29,  58, 116, 232, 205, 135,  19,
     38,  76, 152,  45,  90, 180, 117, 234, 201, 143,   3,   6,  12,  24,  48,
     96, 192, 157,  39,  78, 156,  37,  74, 148,  53, 106, 212, 181, 119, 238,
    193, 159,  35,  70, 140,   5,  10,  20,  40,  80, 160,  93, 186, 105, 210,
    185, 111, 222, 161,  95, 190,  97, 194, 153,  47,  94, 188, 101, 202, 137,
     15,  30,  60, 120, 240, 253, 231, 211, 187, 107, 214, 177, 127, 254, 225,
    223, 163,  91, 182, 113, 226, 217, 175,  67, 134,  17,  34,  68, 136,  13,
     26,  52, 104, 208, 189, 103, 206, 129,  31,  62, 124, 248, 237, 199, 147,
     59, 118, 236, 197, 151,  51, 102, 204, 133,  23,  46,  92, 184, 109, 218,
    169,  79, 158,  33,  66, 132,  21,  42,  84, 168,  77, 154,  41,  82, 164,
     85, 170,  73, 146,  57, 114, 228, 213, 183, 115, 230, 209, 191,  99, 198,
    145,  63, 126, 252, 229, 215, 179, 123, 246, 241, 255, 227, 219, 171,  75,
    150,  49,  98, 196, 149,  55, 110, 220, 165,  87, 174,  65, 130,  25,  50,
    100, 200, 141,   7,  14,  28,  56, 112, 224, 221, 167,  83, 166,  81, 162,
     89, 178, 121, 242, 249, 239, 195, 155,  43,  86, 172,  69, 138,   9,  18,
     36,  72, 144,  61, 122, 244, 245, 247, 243, 251, 235, 203, 139,  11,  22,
     44,  88, 176, 125, 250, 233, 207, 131,  27,  54, 108, 216, 173,  71, 142 >>

\* gf_log of init_tables(): entry x holds the k with 2^k = x, x = 1..255.
GfLog == <<
      0,   1,  25,   2,  50,  26, 198,   3, 223,  51, 238,  27, 104, 199,  75,
      4, 100, 224,  14,  52, 141, 239, 129,  28, 193, 105, 248, 200,   8,  76,
    113,   5, 138, 101,  47, 225,  36,  15,  33,  53, 147, 142, 218, 240,  18,
    130,  69,  29, 181, 194, 125, 106,  39, 249, 185, 201, 154,   9, 120,  77,
    228, 114, 166,   6, 191, 139,  98, 102, 221,  48, 253, 226, 152,  37, 179,
     16, 145,  34, 136,  54, 208, 148, 206, 143, 150, 219, 189, 241, 210,  19,
     92, 131,  56,  70,  64,  30,  66, 182, 163, 195,  72, 126, 110, 107,  58,
     40,  84, 250, 133, 186,  61, 202,  94, 155, 159,  10,  21, 121,  43,  78,
    212, 229, 172, 115, 243, 167,  87,   7, 112, 192, 247, 140, 128,  99,  13,
    103,  74, 222, 237,  49, 197, 254,  24, 227, 165, 153, 119,  38, 184, 180,
    124,  17,  68, 146, 217,  35,  32, 137,  46,  55,  63, 209,  91, 149, 188,
    207, 205, 144, 135, 151, 178, 220, 252, 190,  97, 242,  86, 211, 171,  20,
     42,  93, 158, 132,  60,  57,  83,  71, 109,  65, 162,  31,  45,  67, 216,
    183, 123, 164, 118, 196,  23,  73, 236, 127,  12, 111, 246, 108, 161,  59,
     82,  41, 157,  85, 170, 251,  96, 134, 177, 187, 204,  62,  90, 203,  89,
     95, 176, 156, 169, 160,  81,  11, 245,  22, 235, 122, 117,  44, 215,  79,
    174, 213, 233, 230, 231, 173, 232, 116, 214, 244, 234, 168,  80,  88, 175 >>

gf_mul(x, y) ==
    IF x = 0 \/ y = 0 THEN 0
    ELSE GfExp[((GfLog[x] + GfLog[y]) % 255) + 1]

gf_div(x, y) ==
    IF x = 0 THEN 0
    ELSE GfExp[((GfLog[x] + 255 - GfLog[y]) % 255) + 1]

\* p(x) * (x - 2^e): the product of a polynomial (highest degree first) with
\* a monic linear factor.
PolyTimesRoot(p, e) ==
    AsTuple([k \in 1..(Len(p) + 1) |->
        Xor(IF k <= Len(p) THEN p[k] ELSE 0,
            IF k >= 2 THEN gf_mul(p[k - 1], GfExp[e + 1]) ELSE 0)])

\* rs_generator_poly(nsym): the product of (x - 2^e) for e = 0..nsym-1.
RECURSIVE rs_generator_poly(_)
rs_generator_poly(nsym) ==
    IF nsym = 0 THEN <<1>>
    ELSE PolyTimesRoot(rs_generator_poly(nsym - 1), nsym - 1)

\* The division of msg * x^nsym by the generator, step k (1-based) of the
\* synthetic division over the buffer out.
RECURSIVE RsDivide(_, _, _, _)
RsDivide(out, gen, k, msglen) ==
    IF k > msglen THEN out
    ELSE LET coef == out[k]
         IN  IF coef = 0 THEN RsDivide(out, gen, k + 1, msglen)
             ELSE RsDivide(
                     AsTuple([p \in 1..Len(out) |->
                         IF p > k /\ p < k + Len(gen)
                         THEN Xor(out[p], gf_mul(gen[p - k + 1], coef))
                         ELSE out[p]]),
                     gen, k + 1, msglen)

\* RSCodec.encode for a message of at most 255 - nsym bytes: the message
\* followed by the nsym remainder bytes (systematic code).
rs_encode(msg, gen) ==
    LET nsym == Len(gen) - 1
        zero == AsTuple([p \in 1..nsym |-> 0])
        rem  == RsDivide(msg \o zero, gen, 1, Len(msg))
    IN  msg \o SubSeq(rem, Len(msg) + 1, Len(msg) + nsym)

\* Number of positions at which two byte strings of one length differ.
Distance(a, b) == Cardinality({p \in 1..Len(a) : a[p] # b[p]})

\* RSCodec.decode(block) taken without stripping the parity bytes.
rs_decode_keeps_parity(block, gen) == Ok(block)

\* The messages whose codeword can lie within fewer than Len(block) errors
\* of the block: such a codeword agrees with the block at some position.  A
\* one-byte message m has the codeword m * gen (gen is monic with nonzero
\* coefficients), so position p leaves the one message block[p] / gen[p];
\* longer messages are all searched.
RsCandidates(block, gen, k) ==
    IF k = 1 THEN {<<gf_div(block[p], gen[p])>> : p \in 1..Len(block)}
    ELSE [1..k -> Bytes]

\* RSCodec.decode(block)[0] for a block of one codeword: the message of the
\* codeword within floor(nsym / 2) byte errors of the block, or
\* ReedSolomonError when there is none.  (The codewords differ pairwise in
\* more than nsym positions, so at most one is that near.)  RSCodec.decode
\* walks its input in blocks of 255 bytes, so an empty input has no block
\* to correct and decodes to the empty message.
rs_decode(block, gen) ==
    LET nsym == Len(gen) - 1
        k    == Len(block) - nsym
        msg  == SubSeq(block, 1, k)
    IN  IF block = <<>> THEN Ok(<<>>)
        ELSE IF k < 1 THEN Raise("ReedSolomonError")
        ELSE IF rs_encode(msg, gen) = block THEN Ok(msg)
        ELSE LET near == {m \in RsCandidates(block, gen, k) :
                             Distance(rs_encode(m, gen), block) <= nsym \div 2}
             IN  IF near = {} THEN Raise("ReedSolomonError")
                 ELSE Ok(CHOOSE m \in near : TRUE)


-----------------------------------------------------------------------------
(* Cryptographic envelope: PBKDF2 and AES-GCM of pycryptodome, reduced to  *)
(* what the codec relies on.  The key is a function of password and salt,  *)
(* the cipher is a stream cipher (GCM encrypts in counter mode): byte j of *)
(* the text is xored with byte j of a keystream fixed by key and nonce.    *)

Passwords == {"pw1", "pw2"}
PasswordCode(pw) == IF pw = "pw1" THEN 1 ELSE 2

\* PBKDF2(password.encode(), salt, dkLen=32, count=100000)
PBKDF2(pw, salt) == (97 * PasswordCode(pw) + 3 * salt[1]) % 256

KeyStream(key, nonce, j) == (key + 5 * nonce[1] + 11 * j) % 256

\* cipher.encrypt(data) and cipher.decrypt(data): the same xor.  decrypt()
\* verifies nothing; only decrypt_and_verify() and verify() check a tag.
AesGcmCrypt(key, nonce, text) ==
    AsTuple([j \in 1..Len(text) |-> Xor(text[j], KeyStream(key, nonce, j))])

\* _encrypt_data with the salt and nonce the random source returned: the
\* tag of encrypt_and_digest is dropped, (ciphertext, nonce, salt) returned.
encrypt_data(text, pw, salt, nonce) ==
    [ciphertext |-> AesGcmCrypt(PBKDF2(pw, salt), nonce, text),
     nonce |-> nonce, salt |-> salt]

-----------------------------------------------------------------------------
(* Fragment addresser and the arithmetic of encode. *)

\* _add_fragment_id with the id written as 1 byte, a header of 4 symbols.
add_fragment_id_one_byte(sequence, fragment_id) ==
    binary_to_dna(<<fragment_id % 256>>) \o sequence

\* _add_fragment_id: the id as 2 big-endian bytes, packed, before the
\* sequence (ids below 65536; to_bytes raises OverflowError above).
add_fragment_id(sequence, fragment_id) ==
    binary_to_dna(<<fragment_id \div 256, fragment_id % 256>>) \o sequence

\* usable_length and bytes_per_sequence of encode (lines 120-121).
usable_length(L) == L - HeaderLen
bytes_per_sequence(L) == (usable_length(L) * 2) \div 8

\* The number of iterations of range(0, n, step).
RangeCount(n, step) == (n + step - 1) \div step

-----------------------------------------------------------------------------
(* decode. *)

\* extract_fragment_id: the first 8 symbols unpacked and read big-endian.
RECURSIVE FromBytesBig(_)
FromBytesBig(b) ==
    IF b = <<>> THEN 0
    ELSE 256 * FromBytesBig(SubSeq(b, 1, Len(b) - 1)) + b[Len(b)]

extract_fragment_id(seq) ==
    LET id_binary == dna_to_binary(Slice(seq, 0, HeaderLen))
    IN  IF id_binary.ok THEN Ok(FromBytesBig(id_binary.val)) ELSE id_binary

\* sorted(sequences, key=extract_fragment_id): a stable sort, so x goes
\* behind every element whose key is not larger.
RECURSIVE InsertByFragmentId(_, _)
InsertByFragmentId(sorted, x) ==
    IF sorted = <<>> THEN <<x>>
    ELSE IF extract_fragment_id(Head(sorted)).val <= extract_fragment_id(x).val
    THEN <<Head(sorted)>> \o InsertByFragmentId(Tail(sorted), x)
    ELSE <<x>> \o sorted

\* decode without the sort by fragment ID.
SortByFragmentId_unsorted(seqs) == seqs

RECURSIVE SortByFragmentId(_)
SortByFragmentId(seqs) ==
    IF seqs = <<>> THEN <<>>
    ELSE InsertByFragmentId(
            SortByFragmentId(SubSeq(seqs, 1, Len(seqs) - 1)), seqs[Len(seqs)])

\* The for loop of decode (lines 185-196) over the sorted sequences, from
\* sequence k on, with acc the bytes gathered so far.
RECURSIVE DecodeChunks(_, _, _, _, _)
DecodeChunks(seqs, k, acc, nsym, gen) ==
    IF k > Len(seqs) THEN Ok(acc)
    ELSE LET raw == dna_to_binary(Slice(seqs[k], HeaderLen, Len(seqs[k])))
         IN  IF ~raw.ok THEN raw
             ELSE IF nsym > 0
             THEN LET fixed == rs_decode(raw.val, gen)
                  IN  IF fixed.ok
                      THEN DecodeChunks(seqs, k + 1, acc \o fixed.val, nsym, gen)
                      ELSE Raise("ValueError: Error correction failed for sequence")
             ELSE DecodeChunks(seqs, k + 1, acc \o raw.val, nsym, gen)

\* Lines 198-212: with a password, the gathered bytes are split into salt,
\* nonce and ciphertext and decrypted; AES.new refuses an empty nonce.
OpenEnvelope(gathered, pw) ==
    IF pw = "" THEN Ok(gathered)
    ELSE LET salt       == Slice(gathered, 0, 16)
             nonce      == Slice(gathered, 16, 32)
             ciphertext == Slice(gathered, 32, Len(gathered))
         IN  IF nonce = <<>> THEN Raise("ValueError: Nonce cannot be empty")
             ELSE Ok(AesGcmCrypt(PBKDF2(pw, salt), nonce, ciphertext))

decode(seqs, pw, nsym, gen) ==
    IF \E k \in 1..Len(seqs) : ~extract_fragment_id(seqs[k]).ok
    THEN Raise("ValueError")
    ELSE LET gathered == DecodeChunks(SortByFragmentId(seqs), 1, <<>>, nsym, gen)
         IN  IF gathered.ok THEN OpenEnvelope(gathered.val, pw) ELSE gathered


-----------------------------------------------------------------------------
(* Inputs of the model. *)

\* 0x00 = AAAA, 0x1E = ATGC, 0xFA = GGCC.
SampleBytes == {0, 30, 250}

\* The payload of the 32-zero-bytes scenario.
ZeroPayload == AsTuple([k \in 1..32 |-> 0])

Payloads == SeqsUpTo(SampleBytes, MaxPayloadLen) \cup {ZeroPayload}

\* What get_random_bytes(16) and the cipher's fresh nonce may be.
RandomBlocks == {AsTuple([k \in 1..16 |-> b]) : b \in {0, 30}}

\* The encoders the model constructs: a level of "none" with 1, 2 and 8
\* bytes per sequence, and the two Reed-Solomon levels with 1.
Encoders == {<<12, "none">>, <<16, "none">>, <<40, "none">>,
             <<12, "basic">>, <<12, "robust">>}

\* The orders in which a caller may hand the sequences of s to decode.
Reorderings(s) ==
    {AsTuple([k \in 1..Len(s) |-> s[p[k]]]) :
        p \in {q \in [1..Len(s) -> 1..Len(s)] :
                  \A x, y \in 1..Len(s) : q[x] = q[y] => x = y}}

\* s with one of its sequences handed in twice.
Duplications(s) == {Append(s, s[k]) : k \in 1..Len(s)}

\* The lengths, below the 8 symbols of a header, to which a sequence is cut.
TruncatedLens == {0, 7}

\* s with one of its sequences cut short inside its header.
Truncations(s) ==
    {[s EXCEPT ![k] = SubSeq(s[k], 1, n)] :
        k \in 1..Len(s), n \in TruncatedLens}

\* s with the first or the last header symbol of one sequence replaced by a
\* symbol that is no nucleotide.
BadHeaders(s) ==
    {[s EXCEPT ![k][j] = "N"] : k \in 1..Len(s), j \in {1, HeaderLen}}

DecodeInputs(s) ==
    Reorderings(s) \cup Duplications(s) \cup Truncations(s) \cup BadHeaders(s)

\* Byte strings for the packer on its own: every single byte, and the
\* strings over SampleBytes.
PackInputs == SeqsUpTo(SampleBytes, MaxPackLen) \cup {<<b>> : b \in Bytes}

\* Nucleotide strings for the rewriter on its own.
DnaInputs == SeqsUpTo({"A", "T", "C", "G"}, MaxDnaLen)

-----------------------------------------------------------------------------
(* The state machine. *)

NoResult == [ok |-> FALSE, val |-> <<>>, err |-> "pending"]

\* __init__ (lines 17-37).
Construct(L, level) ==
    /\ base_length = L
    /\ error_correction_level = level
    /\ ecc_symbols = (IF level = "none" THEN 0
                      ELSE IF level = "basic" THEN 8 ELSE 16)
    /\ rs_codec = (IF level = "none" THEN <<>>
                   ELSE rs_generator_poly(IF level = "basic" THEN 8 ELSE 16))

NoCall ==
    /\ payload = <<>> /\ password = "" /\ data = <<>> /\ i = 0
    /\ chunk = <<>> /\ packed = <<>> /\ balanced = <<>> /\ limited = <<>>
    /\ sequences = <<>> /\ inbox = <<>> /\ dec_password = ""
    /\ result = NoResult /\ unpacked = NoResult

Init ==
    /\ \E e \in Encoders : Construct(e[1], e[2])
    /\ rng \in Tapes
    /\ pc = "idle"
    /\ NoCall

encoder == <<base_length, error_correction_level, ecc_symbols, rs_codec>>

\* encode, lines 114-124: the envelope when a password is given, and the
\* start of the loop.
EncodeCall(P, pw, salt, nonce) ==
    /\ pc = "idle"
    /\ LET sealed == encrypt_data(P, pw, salt, nonce)
           d == IF pw # "" THEN sealed.salt \o sealed.nonce \o sealed.ciphertext
                ELSE P
       IN  /\ RangeCount(Len(d), bytes_per_sequence(base_length)) <= MaxFragments
           /\ data' = d
    /\ payload' = P
    /\ password' = pw
    /\ i' = 0
    /\ sequences' = <<>>
    /\ pc' = "encoding"
    /\ UNCHANGED <<encoder, rng, chunk, packed, balanced, limited, inbox,
                   dec_password, result, unpacked>>

\* One iteration of encode's loop, lines 125-142.
EncodeChunk ==
    /\ pc = "encoding"
    /\ i < Len(data)
    /\ LET c   == Slice(data, i, i + bytes_per_sequence(base_length))
           dna == IF ecc_symbols > 0
                  THEN binary_to_dna(rs_encode(c, rs_codec))
                  ELSE binary_to_dna(c)
           bal == optimize_gc_content(dna, rng)
           lim == avoid_homopolymers(bal.seq, bal.rng)
       IN  /\ chunk' = c
           /\ packed' = dna
           /\ balanced' = bal.seq
           /\ limited' = lim.seq
           /\ rng' = lim.rng
           /\ sequences' = Append(sequences,
                                  add_fragment_id(lim.seq, Len(sequences)))
    /\ i' = i + bytes_per_sequence(base_length)
    /\ UNCHANGED <<encoder, pc, payload, password, data, inbox, dec_password,
                   result, unpacked>>

\* The end of encode's loop, line 144.
EncodeReturn ==
    /\ pc = "encoding"
    /\ ~(i < Len(data))
    /\ pc' = "encoded"
    /\ UNCHANGED <<encoder, rng, payload, password, data, i, chunk, packed,
                   balanced, limited, sequences, inbox, dec_password, result,
                   unpacked>>

\* decode (lines 164-212) of the list seqs with password pw.
Decode(seqs, pw) ==
    /\ pc = "encoded"
    /\ inbox' = seqs
    /\ dec_password' = pw
    /\ result' = decode(seqs, pw, ecc_symbols, rs_codec)
    /\ pc' = "decoded"
    /\ UNCHANGED <<encoder, rng, payload, password, data, i, chunk, packed,
                   balanced, limited, sequences, unpacked>>

Next ==
    \/ \E P \in Payloads : EncodeCall(P, "", <<>>, <<>>)
    \/ EncodeChunk
    \/ EncodeReturn
    \/ \E seqs \in DecodeInputs(sequences) : Decode(seqs, "")

\* Calls without a password, on every encoder of the model.
Spec == Init /\ [][Next]_vars

-----------------------------------------------------------------------------
(* Calls with a password. *)

InitSealed ==
    /\ Construct(40, "none")
    /\ rng \in Tapes
    /\ pc = "idle"
    /\ NoCall

NextSealed ==
    \/ \E P \in Payloads, pw \in Passwords, salt \in RandomBlocks,
          nonce \in RandomBlocks : EncodeCall(P, pw, salt, nonce)
    \/ EncodeChunk
    \/ EncodeReturn
    \/ \E seqs \in {sequences} \cup Duplications(sequences),
          pw \in Passwords \cup {""} : Decode(seqs, pw)

SpecSealed == InitSealed /\ [][NextSealed]_vars

-----------------------------------------------------------------------------
(* The packer on its own: _binary_to_dna of a byte string, then            *)
(* _dna_to_binary of what it returned.                                     *)

InitPacker ==
    /\ Construct(200, "basic")
    /\ rng = AsTuple([k \in 1..TapeLen |-> 0])
    /\ pc = "pack"
    /\ payload \in PackInputs
    /\ password = "" /\ data = <<>> /\ i = 0
    /\ chunk = <<>> /\ packed = <<>> /\ balanced = <<>> /\ limited = <<>>
    /\ sequences = <<>> /\ inbox = <<>> /\ dec_password = ""
    /\ result = NoResult /\ unpacked = NoResult

Pack ==
    /\ pc = "pack"
    /\ packed' = binary_to_dna(payload)
    /\ pc' = "unpack"
    /\ UNCHANGED <<encoder, rng, payload, password, data, i, chunk, balanced,
                   limited, sequences, inbox, dec_password, result, unpacked>>

Unpack ==
    /\ pc = "unpack"
    /\ unpacked' = dna_to_binary(packed)
    /\ pc' = "unpacked"
    /\ UNCHANGED <<encoder, rng, payload, password, data, i, chunk, packed,
                   balanced, limited, sequences, inbox, dec_password, result>>

NextPacker == Pack \/ Unpack

SpecPacker == InitPacker /\ [][NextPacker]_vars

-----------------------------------------------------------------------------
(* The rewriter on its own: _optimize_gc_content and _avoid_homopolymers   *)
(* of a nucleotide string, each alone and one after the other as in encode.*)

InitRewriter ==
    /\ Construct(200, "basic")
    /\ rng \in Tapes
    /\ pc = "rewrite"
    /\ packed \in DnaInputs
    /\ payload = <<>> /\ password = "" /\ data = <<>> /\ i = 0
    /\ chunk = <<>> /\ balanced = <<>> /\ limited = <<>>
    /\ sequences = <<>> /\ inbox = <<>> /\ dec_password = ""
    /\ result = NoResult /\ unpacked = NoResult

\* _optimize_gc_content(packed); len(sequence) = 0 divides by zero.
Balance ==
    /\ pc = "rewrite"
    /\ IF packed = <<>>
       THEN /\ result' = Raise("ZeroDivisionError")
            /\ pc' = "raised"
            /\ UNCHANGED <<balanced, rng>>
       ELSE LET bal == optimize_gc_content(packed, rng)
            IN  /\ balanced' = bal.seq
                /\ rng' = bal.rng
                /\ pc' = "balanced"
                /\ UNCHANGED result
    /\ UNCHANGED <<encoder, payload, password, data, i, chunk, packed, limited,
                   sequences, inbox, dec_password, unpacked>>

\* _avoid_homopolymers of the string as it stands: packed, or balanced once
\* Balance has run.
Limit ==
    /\ pc \in {"rewrite", "balanced"}
    /\ LET lim == avoid_homopolymers(IF pc = "rewrite" THEN packed
                                     ELSE balanced, rng)
       IN  /\ limited' = lim.seq
           /\ rng' = lim.rng
    /\ pc' = IF pc = "rewrite" THEN "limited" ELSE "rewritten"
    /\ UNCHANGED <<encoder, payload, password, data, i, chunk, packed, balanced,
                   sequences, inbox, dec_password, result, unpacked>>

NextRewriter == Balance \/ Limit

SpecRewriter == InitRewriter /\ [][NextRewriter]_vars


-----------------------------------------------------------------------------
(* Properties. *)

\* The payload segment of a full sequence.
PayloadSegment(seq) == Slice(seq, HeaderLen, Len(seq))

\* The chunk that the k-th iteration of encode's loop cuts from data, and
\* what it packs before the rewriter runs.
ChunkAt(k) ==
    Slice(data, (k - 1) * bytes_per_sequence(base_length),
          k * bytes_per_sequence(base_length))

PackedChunk(k) ==
    IF ecc_symbols > 0 THEN binary_to_dna(rs_encode(ChunkAt(k), rs_codec))
    ELSE binary_to_dna(ChunkAt(k))

\* The rewriter changed no symbol of any chunk of the finished encode.
NoSubstitution ==
    \A k \in 1..Len(sequences) : PayloadSegment(sequences[k]) = PackedChunk(k)

\* C1: without a password, when GC balancing and run-length limiting changed
\* no symbol of any chunk, decode of the list that encode returned, on the
\* same encoder, returns exactly the payload.
C1_RoundTrip ==
    (/\ pc = "decoded"
     /\ password = "" /\ dec_password = ""
     /\ inbox = sequences
     /\ NoSubstitution)
    => result = Ok(payload)

\* A round trip of two Reed-Solomon framed chunks that the rewriter left alone.
C1_Witness ==
    /\ pc = "decoded"
    /\ password = "" /\ dec_password = ""
    /\ inbox = sequences
    /\ NoSubstitution
    /\ ecc_symbols = 16
    /\ Len(sequences) = 2
    /\ result = Ok(payload)

\* The nucleotide of a bit pair: 00 = A, 01 = T, 10 = C, 11 = G.
PairSymbol(v) ==
    CASE v = 0 -> "A" [] v = 1 -> "T" [] v = 2 -> "C" [] v = 3 -> "G"

\* C2: _binary_to_dna(b) has 4 * len(b) symbols, byte k of b is written as
\* symbols 4k..4k+3 with the most significant bit pair first, and
\* _dna_to_binary of it is b again.
C2_PackerRoundTrip ==
    /\ pc \in {"unpack", "unpacked"} =>
          /\ Len(packed) = 4 * Len(payload)
          /\ \A k \in 1..Len(payload) :
                SubSeq(packed, 4 * k - 3, 4 * k) =
                    << PairSymbol(payload[k] \div 64),
                       PairSymbol((payload[k] \div 16) % 4),
                       PairSymbol((payload[k] \div 4) % 4),
                       PairSymbol(payload[k] % 4) >>
    /\ pc = "unpacked" => unpacked = Ok(payload)

\* Two different bytes went through the packer and came back.
C2_Witness ==
    /\ pc = "unpacked"
    /\ Len(payload) = 2
    /\ payload[1] # payload[2]
    /\ unpacked = Ok(payload)

\* C3: decode of any reordering of the list that encode returned gives what
\* decode of the list itself gives.
C3_ReorderInvariance ==
    (pc = "decoded" /\ inbox \in Reorderings(sequences))
    => result = decode(sequences, dec_password, ecc_symbols, rs_codec)

\* A list of different fragments, handed in another order, decoded to the
\* payload.
C3_Witness ==
    /\ pc = "decoded"
    /\ inbox \in Reorderings(sequences)
    /\ inbox # sequences
    /\ Len(payload) >= 2
    /\ payload[1] # payload[2]
    /\ result = Ok(payload)

\* C4: every sequence of a full chunk has 4 * (chunk bytes + parity bytes)
\* + 8 = base_length symbols, and no sequence is longer than base_length.
C4_SequenceLengthIsBaseLength ==
    pc \in {"encoding", "encoded"} =>
        \A k \in 1..Len(sequences) :
            /\ Len(ChunkAt(k)) = bytes_per_sequence(base_length)
                  => 4 * (Len(ChunkAt(k)) + ecc_symbols) + HeaderLen = base_length
            /\ Len(sequences[k]) <= base_length

\* No 4 adjacent positions of s hold one symbol.
NoLongRun(s) ==
    \A k \in 1..(Len(s) - 3) :
        ~(s[k] = s[k + 1] /\ s[k + 1] = s[k + 2] /\ s[k + 2] = s[k + 3])

\* C5: _avoid_homopolymers(s) has the length of s and no window of 4
\* adjacent positions holding one symbol.
C5_RunLengthLimit ==
    /\ pc = "limited" => Len(limited) = Len(packed) /\ NoLongRun(limited)
    /\ pc = "rewritten" => Len(limited) = Len(balanced) /\ NoLongRun(limited)

\* A string with a run of 4 went through _avoid_homopolymers.
C5_Witness ==
    /\ pc = "limited"
    /\ Len(packed) = 5
    /\ ~NoLongRun(SubSeq(packed, 2, 5))
    /\ limited # packed

\* C5 on encode: the payload segment of every sequence that encode has
\* appended has no 4 adjacent positions holding one symbol.
EncodedRunLengthLimit ==
    \A k \in 1..Len(sequences) : NoLongRun(PayloadSegment(sequences[k]))

\* C6: the G/C fraction of a rewritten payload segment lies in [0.4, 0.6]
\* unless the balancing scan ran through the whole segment without reaching
\* the tolerance (which leaves the balanced segment outside the tolerance).
C6_CompositionConstraint ==
    (pc \in {"encoding", "encoded"} /\ sequences # <<>>)
    => (WithinTolerance(limited) \/ ~WithinTolerance(balanced))

\* C7: decode with another password than the one encode was given fails.
C7_WrongPasswordRejected ==
    (/\ pc = "decoded"
     /\ password # "" /\ dec_password # ""
     /\ dec_password # password
     /\ inbox = sequences)
    => ~result.ok

\* C8: decode of a list in which two sequences carry one ordinal fails.
C8_DuplicateOrdinalRejected ==
    (/\ pc = "decoded"
     /\ \E a, b \in 1..Len(inbox) :
           a # b /\ extract_fragment_id(inbox[a]) = extract_fragment_id(inbox[b]))
    => ~result.ok

\* The scenario of C9: 32 zero bytes, base_length 40, level none, no password.
ZeroScenario ==
    /\ pc = "encoded"
    /\ payload = ZeroPayload
    /\ base_length = 40
    /\ error_correction_level = "none"
    /\ password = ""

\* C9 as stated: the scenario returns exactly 1 sequence, of length 40.
C9_Original ==
    ZeroScenario => Len(sequences) = 1 /\ Len(sequences[1]) = 40

\* C9 as amended: the scenario returns exactly 4 sequences, each of length
\* 40 (8 header symbols + 32 payload symbols, which hold 8 bytes).
C9_ZeroScenario ==
    ZeroScenario =>
        /\ Len(sequences) = 4
        /\ \A k \in 1..4 : Len(sequences[k]) = 40

C9_Witness == ZeroScenario /\ Len(sequences) = 4

\* The bytes of the framed block in which the rewriter changed a symbol.
ChangedBytes(before, after) ==
    {k \in 1..(Len(before) \div 4) :
        \E j \in (4 * k - 3)..(4 * k) : before[j] # after[j]}

\* C10: in every chunk the rewriter changes symbols in at most
\* floor(parity symbols / 2) bytes of the framed block.
C10_RewriterWithinCapacity ==
    (pc \in {"encoding", "encoded"} /\ sequences # <<>>)
    => Cardinality(ChangedBytes(packed, limited)) <= ecc_symbols \div 2

\* A sequence whose header cannot be parsed: fewer than 8 symbols, or a
\* symbol outside {A, T, C, G} among its first 8.
MalformedFragment(seq) ==
    \/ Len(seq) < HeaderLen
    \/ \E j \in 1..Len(seq) : j <= HeaderLen /\ ~IsNucleotide(seq[j])

\* C11: decode of a list holding a sequence with a truncated header or with
\* a header symbol outside {A, T, C, G} fails and returns no payload.
C11_MalformedFragmentRejected ==
    (pc = "decoded" /\ \E k \in 1..Len(inbox) : MalformedFragment(inbox[k]))
    => ~result.ok

=============================================================================
